---------------------------- MODULE Spec2Model ----------------------------
(***************************************************************************)
(* Forecasting service of madebyaris/bantuaku:                             *)
(*   services/forecasting/app/services/predictor.py   (ForecastPredictor)  *)
(*   services/forecasting/app/services/strategizer.py (Strategizer)        *)
(*   services/forecasting/app/models/forecast.py      (records)            *)
(*                                                                         *)
(* The predictor computes in Python floats.  The model computes the same   *)
(* expressions in exact arithmetic: a number is a fraction whose numerator *)
(* is a signed multi-limb integer (TLC's own integers are 32 bits wide and *)
(* the exponential smoothing alone needs denominators of 10^(N-1)), and    *)
(* math.sqrt is kept symbolic as a + b*sqrt(r).  int() truncates toward    *)
(* zero, as in Python.                                                     *)
(***************************************************************************)
EXTENDS Integers, Sequences, FiniteSets, TLC

(***************************************************************************)
(* Bounds of the model.                                                    *)
(***************************************************************************)
MaxLen == 10
MaxForecasts == 2
MaxChanges == 1
MaxInvocations == 2
MaxFlags == 3

(***************************************************************************)
(* Natural numbers of any size: little-endian sequences of limbs in        *)
(* 0..BASE-1 with no leading (most significant) zero limb; <<>> is 0.      *)
(***************************************************************************)
BASE == 10 ^ 4
SMALL == 10 ^ 5

RECURSIVE GCD(_, _)
GCD(a, b) == IF b = 0 THEN a ELSE GCD(b, a % b)

Rest(a) == IF a = <<>> THEN <<>> ELSE Tail(a)
Limb(a) == IF a = <<>> THEN 0 ELSE a[1]

RECURSIVE NFromInt(_)
NFromInt(x) == IF x = 0 THEN <<>> ELSE <<x % BASE>> \o NFromInt(x \div BASE)

RECURSIVE NToInt(_)
NToInt(a) == IF a = <<>> THEN 0 ELSE a[1] + BASE * NToInt(Tail(a))

RECURSIVE NTrim(_)
NTrim(a) ==
    IF a = <<>> THEN a
    ELSE IF a[Len(a)] = 0 THEN NTrim(SubSeq(a, 1, Len(a) - 1)) ELSE a

RECURSIVE NAddC(_, _, _)
NAddC(a, b, c) ==
    IF a = <<>> /\ b = <<>> THEN (IF c = 0 THEN <<>> ELSE <<c>>)
    ELSE <<(Limb(a) + Limb(b) + c) % BASE>>
         \o NAddC(Rest(a), Rest(b), (Limb(a) + Limb(b) + c) \div BASE)

NAdd(a, b) == NAddC(a, b, 0)

\* a - b for a >= b
RECURSIVE NSubB(_, _, _)
NSubB(a, b, c) ==
    IF a = <<>> THEN <<>>
    ELSE IF a[1] - Limb(b) - c < 0
         THEN <<a[1] - Limb(b) - c + BASE>> \o NSubB(Tail(a), Rest(b), 1)
         ELSE <<a[1] - Limb(b) - c>> \o NSubB(Tail(a), Rest(b), 0)

NSub(a, b) == NTrim(NSubB(a, b, 0))

\* -1, 0, 1 as a < b, a = b, a > b
RECURSIVE NCmpFrom(_, _, _)
NCmpFrom(a, b, i) ==
    IF i = 0 THEN 0
    ELSE IF a[i] < b[i] THEN -1
    ELSE IF a[i] > b[i] THEN 1
    ELSE NCmpFrom(a, b, i - 1)

NCmp(a, b) ==
    IF Len(a) < Len(b) THEN -1
    ELSE IF Len(a) > Len(b) THEN 1
    ELSE NCmpFrom(a, b, Len(a))

\* a * k for 0 <= k <= SMALL
RECURSIVE NMulSmallC(_, _, _)
NMulSmallC(a, k, c) ==
    IF a = <<>> THEN NFromInt(c)
    ELSE <<(a[1] * k + c) % BASE>> \o NMulSmallC(Tail(a), k, (a[1] * k + c) \div BASE)

NMulSmall(a, k) == IF k = 0 THEN <<>> ELSE NMulSmallC(a, k, 0)

NShift(a) == IF a = <<>> THEN a ELSE <<0>> \o a

RECURSIVE NMul(_, _)
NMul(a, b) ==
    IF a = <<>> \/ b = <<>> THEN <<>>
    ELSE NAdd(NMulSmall(a, b[1]), NShift(NMul(a, Tail(b))))

\* quotient and remainder of a by k, 1 <= k <= SMALL: long division from the
\* most significant limb a[i] down, r the running remainder, q the quotient so far
RECURSIVE NDivFrom(_, _, _, _, _)
NDivFrom(a, k, i, r, q) ==
    IF i = 0 THEN [q |-> NTrim(q), r |-> r]
    ELSE NDivFrom(a, k, i - 1, (r * BASE + a[i]) % k, <<(r * BASE + a[i]) \div k>> \o q)

NDivSmall(a, k) == NDivFrom(a, k, Len(a), 0, <<>>)

RECURSIVE NMulAll(_, _)
NMulAll(a, ks) == IF ks = <<>> THEN a ELSE NMulAll(NMulSmall(a, Head(ks)), Tail(ks))

RECURSIVE NDivAll(_, _)
NDivAll(a, ks) == IF ks = <<>> THEN a ELSE NDivAll(NDivSmall(a, Head(ks)).q, Tail(ks))

(***************************************************************************)
(* Signed integers [neg, mag]; zero is never negative.                     *)
(***************************************************************************)
ZMake(neg, mag) == [neg |-> neg /\ mag # <<>>, mag |-> mag]
ZFromInt(x) == IF x < 0 THEN ZMake(TRUE, NFromInt(-x)) ELSE ZMake(FALSE, NFromInt(x))
ZSign(z) == IF z.mag = <<>> THEN 0 ELSE IF z.neg THEN -1 ELSE 1
ZNeg(z) == ZMake(~z.neg, z.mag)
ZAdd(x, y) ==
    IF x.neg = y.neg THEN ZMake(x.neg, NAdd(x.mag, y.mag))
    ELSE IF NCmp(x.mag, y.mag) >= 0 THEN ZMake(x.neg, NSub(x.mag, y.mag))
    ELSE ZMake(y.neg, NSub(y.mag, x.mag))
ZMul(x, y) == ZMake(x.neg # y.neg, NMul(x.mag, y.mag))

(***************************************************************************)
(* Fractions [num, den]: num a signed integer, den a sequence of factors   *)
(* in 2..SMALL whose product is the denominator.  QMake cancels what each  *)
(* factor shares with the numerator and merges small factors.              *)
(***************************************************************************)
QPrepend(f, c) == [mag |-> c.mag, den |-> IF f = 1 THEN c.den ELSE <<f>> \o c.den]

RECURSIVE QCancel(_, _)
RECURSIVE QCancelBy(_, _, _)
\* g is what the first factor of den shares with mag
QCancelBy(mag, den, g) ==
    QPrepend(Head(den) \div g,
             QCancel(IF g = 1 THEN mag ELSE NDivSmall(mag, g).q, Tail(den)))
QCancel(mag, den) ==
    IF den = <<>> THEN [mag |-> mag, den |-> <<>>]
    ELSE QCancelBy(mag, den, GCD(Head(den), NDivSmall(mag, Head(den)).r))

RECURSIVE QMerge(_)
QMerge(den) ==
    IF Len(den) < 2 THEN den
    ELSE IF den[1] <= SMALL \div den[2]
         THEN QMerge(<<den[1] * den[2]>> \o SubSeq(den, 3, Len(den)))
         ELSE <<den[1]>> \o QMerge(Tail(den))

QPack(neg, c) == [num |-> ZMake(neg, c.mag), den |-> QMerge(c.den)]
QMake(num, den) == QPack(num.neg, QCancel(num.mag, den))

QInt(x) == [num |-> ZFromInt(x), den |-> <<>>]
QFrac(a, b) == QMake(ZFromInt(a), <<b>>)
QSign(x) == ZSign(x.num)
QNeg(x) == [num |-> ZNeg(x.num), den |-> x.den]
QAdd(x, y) ==
    IF x.den = y.den THEN QMake(ZAdd(x.num, y.num), x.den)
    ELSE QMake(ZAdd(ZMake(x.num.neg, NMulAll(x.num.mag, y.den)),
                    ZMake(y.num.neg, NMulAll(y.num.mag, x.den))),
               x.den \o y.den)
QSub(x, y) == QAdd(x, QNeg(y))
QMul(x, y) ==
    IF x.num.mag = <<>> \/ y.num.mag = <<>> THEN QInt(0)
    ELSE QMake(ZMul(x.num, y.num), x.den \o y.den)
\* x / y for y # 0 with |numerator of y| <= SMALL
QDiv(x, y) ==
    QMake(ZMake(x.num.neg # y.num.neg, NMulAll(x.num.mag, y.den)),
          x.den \o <<NToInt(y.num.mag)>>)
QCmp(x, y) == QSign(QSub(x, y))
QLe(x, y) == QCmp(x, y) <= 0
QLt(x, y) == QCmp(x, y) < 0
QEq(x, y) == QCmp(x, y) = 0
QMin(x, y) == IF QLe(x, y) THEN x ELSE y
QMax(x, y) == IF QLe(y, x) THEN x ELSE y
QAbs(x) == [num |-> ZMake(FALSE, x.num.mag), den |-> x.den]

\* Python's int(x): truncation toward zero
Signed(neg, m) == IF neg THEN -m ELSE m
int(x) == Signed(x.num.neg, NToInt(NDivAll(x.num.mag, x.den)))

\* floor(x), for stating what the specification says
FloorFrom(x, t) == IF x.num.neg /\ QSign(QSub(QInt(t), x)) # 0 THEN t - 1 ELSE t
Floor(x) == FloorFrom(x, int(x))

\* sum(s[lo..hi]); the sum is exact, so it does not depend on the order of
\* the additions, and halving the range keeps the evaluation shallow
RECURSIVE QSumRange(_, _, _)
QSumRange(s, lo, hi) ==
    IF lo > hi THEN QInt(0)
    ELSE IF lo = hi THEN s[lo]
    ELSE QAdd(QSumRange(s, lo, (lo + hi) \div 2),
              QSumRange(s, (lo + hi) \div 2 + 1, hi))

QSum(s) == QSumRange(s, 1, Len(s))

(***************************************************************************)
(* Values a + b*sqrt(r), r >= 0, for the one place the predictor takes a   *)
(* square root.  Two such values are compared only when they share r or    *)
(* one of them is rational.                                                *)
(***************************************************************************)
SRat(q) == [a |-> q, b |-> QInt(0), r |-> QInt(0)]
SSqrt(q) == [a |-> QInt(0), b |-> QInt(1), r |-> q]
SScale(s, q) == [a |-> QMul(s.a, q), b |-> QMul(s.b, q), r |-> s.r]
SSub(s, t) ==
    [a |-> QSub(s.a, t.a), b |-> QSub(s.b, t.b),
     r |-> IF QSign(s.b) = 0 THEN t.r ELSE s.r]
\* the sign of a + b*sqrt(r) from sa, the sign of a, and sb, that of b*sqrt(r)
SSignFrom(s, sa, sb) ==
    IF sb = 0 THEN sa
    ELSE IF sa = 0 \/ sa = sb THEN sb
    ELSE sa * QCmp(QMul(s.a, s.a), QMul(QMul(s.b, s.b), s.r))
SSign(s) == SSignFrom(s, QSign(s.a), IF QSign(s.r) = 0 THEN 0 ELSE QSign(s.b))
SCmp(s, t) == SSign(SSub(s, t))
SLe(s, t) == SCmp(s, t) <= 0
SLt(s, t) == SCmp(s, t) < 0
SMin(s, t) == IF SLe(s, t) THEN s ELSE t
SMax(s, t) == IF SLe(t, s) THEN s ELSE t

(***************************************************************************)
(* models/forecast.py: the records.  An Optional[List] is [some, list];    *)
(* Python's truth test `if xs:` is Truthy(xs): neither None nor empty.     *)
(* forecast_date (a timestamp) is left out of ForecastResponse.            *)
(***************************************************************************)
None == [some |-> FALSE, list |-> <<>>]
Some(l) == [some |-> TRUE, list |-> l]
Truthy(o) == o.some /\ o.list # <<>>

SalesHistoryPoint(d, q) == [date |-> d, quantity |-> q]
TrendSignal(v) == [keyword |-> "kw", value |-> v]
RegulationFlag(score, impact) == [relevance_score |-> score, impact |-> impact]
MonthlyForecast(m, pq, lo, hi, cs) ==
    [month |-> m, predicted_quantity |-> pq, confidence_lower |-> lo,
     confidence_upper |-> hi, confidence_score |-> cs]

Months == 1..12

\* The element of a set of one element.  Only({e(x) : x \in {a}}) is e(a) with
\* a evaluated first, as Python evaluates the right-hand side of an
\* assignment before the statements that read the variable.
Only(S) == CHOOSE result \in S : TRUE

\* sum(s[lo..hi]) of integers
RECURSIVE SumRange(_, _, _)
SumRange(s, lo, hi) ==
    IF lo > hi THEN 0
    ELSE IF lo = hi THEN s[lo]
    ELSE SumRange(s, lo, (lo + hi) \div 2) + SumRange(s, (lo + hi) \div 2 + 1, hi)

Sum(s) == SumRange(s, 1, Len(s))

\* data[-k:] for 1 <= k
LastN(data, k) ==
    IF k >= Len(data) THEN data ELSE SubSeq(data, Len(data) - k + 1, Len(data))

(***************************************************************************)
(* services/predictor.py: ForecastPredictor.  A local variable of the code *)
(* that is read more than once is the parameter, of the same name, of the  *)
(* operator that models the rest of the function.                          *)
(***************************************************************************)
_parse_sales_history(sales_history) ==
    [i \in 1..Len(sales_history) |-> sales_history[i].quantity]

SMAOver(data, period) ==
    IF period = 0 THEN QInt(0) ELSE QFrac(Sum(LastN(data, period)), period)

_simple_moving_average(data, period) ==
    SMAOver(data, IF Len(data) < period THEN Len(data) ELSE period)

RECURSIVE ES_fold(_, _, _)
ES_fold(result, values, alpha) ==
    IF values = <<>> THEN result
    ELSE Only({ES_fold(next, Tail(values), alpha) :
                  next \in {QAdd(QMul(alpha, QInt(Head(values))),
                                 QMul(QSub(QInt(1), alpha), result))}})

\* exponential smoothing that starts from 0.0 instead of data[0]
_exponential_smoothing_from_zero(data, alpha) ==
    IF Len(data) = 0 THEN QInt(0) ELSE ES_fold(QInt(0), data, alpha)

_exponential_smoothing(data, alpha) ==
    IF Len(data) = 0 THEN QInt(0)
    ELSE ES_fold(QInt(data[1]), Tail(data), alpha)

\* intercept + slope * (n + 6), intercept = y_mean - slope * x_mean
ProjectLine(n, x_mean, y_mean, slope) ==
    QAdd(QSub(y_mean, QMul(slope, x_mean)), QMul(slope, QInt(n + 6)))

ProjectTrend(n, x_mean, y_mean, numerator, denominator) ==
    IF QSign(denominator) = 0 THEN y_mean
    ELSE Only({ProjectLine(n, x_mean, y_mean, slope) :
                  slope \in {QDiv(numerator, denominator)}})

LinearRegression(data, n, x_mean, y_mean) ==
    Only({ProjectTrend(n, x_mean, y_mean, numerator, denominator) :
             numerator \in
                 {QSum([i \in 1..n |->
                     QMul(QSub(QInt(i - 1), x_mean), QSub(QInt(data[i]), y_mean))])},
             denominator \in
                 {QSum([i \in 1..n |->
                     QMul(QSub(QInt(i - 1), x_mean), QSub(QInt(i - 1), x_mean))])}})

_trend_projection(data) ==
    IF Len(data) < 2 THEN (IF Len(data) > 0 THEN QInt(data[1]) ELSE QInt(0))
    ELSE Only({LinearRegression(data, Len(data), x_mean, y_mean) :
                  x_mean \in {QFrac(Len(data) - 1, 2)},
                  y_mean \in {QFrac(Sum(data), Len(data))}})

_seasonal_adjustment(data) ==
    IF Len(data) < 30
    THEN (IF Len(data) > 0 THEN QFrac(Sum(data), Len(data)) ELSE QInt(0))
    ELSE QFrac(Sum(LastN(data, 30)), 30)

\* a factor that grows by 2% per month instead of decaying
decay_factor_growing(month) == QAdd(QInt(1), QMul(QInt(month - 1), QFrac(2, 100)))

\* 2% decay per month
decay_factor(month) == QSub(QInt(1), QMul(QInt(month - 1), QFrac(2, 100)))

days_per_month == QFrac(3044, 100)

\* the weighted average of the four estimators
base_daily(sma, es, trend, seasonal) ==
    QAdd(QAdd(QAdd(QMul(sma, QFrac(30, 100)), QMul(es, QFrac(30, 100))),
              QMul(trend, QFrac(25, 100))),
         QMul(seasonal, QFrac(15, 100)))

TrendDecay(monthly_base) ==
    [month \in Months |-> QMul(monthly_base, decay_factor(month))]

EnsembleForecasts(sma, es, trend, seasonal) ==
    Only({TrendDecay(monthly_base) :
             monthly_base \in {QMul(base_daily(sma, es, trend, seasonal),
                                    days_per_month)}})

_calculate_base_forecast(sales_data) ==
    Only({EnsembleForecasts(sma, es, trend, seasonal) :
             sma \in {_simple_moving_average(
                         sales_data,
                         IF 30 < Len(sales_data) THEN 30 ELSE Len(sales_data))},
             es \in {_exponential_smoothing(sales_data, QFrac(3, 10))},
             trend \in {_trend_projection(sales_data)},
             seasonal \in {_seasonal_adjustment(sales_data)}})

_calculate_trend_impact(trends_data) ==
    IF trends_data = <<>> THEN QInt(0)
    ELSE QDiv(QSub(QFrac(Sum([i \in 1..Len(trends_data) |-> trends_data[i].value]),
                         Len(trends_data)),
                   QInt(50)),
              QInt(500))

\* the loop's turn with the two signs exchanged
AddFlag_signs_exchanged(total_impact, flag) ==
    IF flag.impact = "positive"
    THEN QSub(total_impact, QMul(flag.relevance_score, QFrac(5, 100)))
    ELSE IF flag.impact = "negative"
    THEN QAdd(total_impact, QMul(flag.relevance_score, QFrac(5, 100)))
    ELSE total_impact

\* one turn of the loop over the flags
AddFlag(total_impact, flag) ==
    IF flag.impact = "positive"
    THEN QAdd(total_impact, QMul(flag.relevance_score, QFrac(5, 100)))
    ELSE IF flag.impact = "negative"
    THEN QSub(total_impact, QMul(flag.relevance_score, QFrac(5, 100)))
    ELSE total_impact

RECURSIVE TotalImpact(_)
TotalImpact(flags) ==
    IF flags = <<>> THEN QInt(0)
    ELSE AddFlag(TotalImpact(SubSeq(flags, 1, Len(flags) - 1)), flags[Len(flags)])

\* the total divided by the number of flags that are not neutral
_calculate_regulation_impact_of_non_neutral(regulation_flags) ==
    IF SelectSeq(regulation_flags, LAMBDA flag : flag.impact # "neutral") = <<>>
    THEN QInt(0)
    ELSE QDiv(TotalImpact(regulation_flags),
              QInt(Len(SelectSeq(regulation_flags,
                                 LAMBDA flag : flag.impact # "neutral"))))

_calculate_regulation_impact(regulation_flags) ==
    IF regulation_flags = <<>> THEN QInt(0)
    ELSE QDiv(TotalImpact(regulation_flags), QInt(Len(regulation_flags)))

ScaleByTrend(adjusted, trend_impact) ==
    [i \in 1..12 |->
        QMul(adjusted[i],
             QAdd(QInt(1),
                  QMul(trend_impact, QSub(QInt(1), QMul(QInt(i - 1), QFrac(5, 100))))))]

ScaleByRegulation(adjusted, regulation_impact) ==
    [i \in 1..12 |-> QMul(adjusted[i], QAdd(QInt(1), regulation_impact))]

ApplyTrends(adjusted, trends_data) ==
    IF Truthy(trends_data)
    THEN ScaleByTrend(adjusted, _calculate_trend_impact(trends_data.list))
    ELSE adjusted

ApplyRegulation(adjusted, regulation_flags) ==
    IF Truthy(regulation_flags)
    THEN ScaleByRegulation(adjusted, _calculate_regulation_impact(regulation_flags.list))
    ELSE adjusted

_apply_exogenous_signals(base_forecasts, trends_data, regulation_flags, exogenous_factors) ==
    ApplyRegulation(ApplyTrends(base_forecasts, trends_data), regulation_flags)

\* statistics.variance: the sample variance of integer data (n >= 2), which the
\* library computes exactly: (n*sum(y^2) - sum(y)^2) / (n*(n-1))
variance(data) ==
    QDiv(QFrac(Len(data) * Sum([i \in 1..Len(data) |-> data[i] * data[i]])
                 - Sum(data) * Sum(data),
               Len(data)),
         QInt(Len(data) - 1))

\* statistics.mean (n >= 1)
mean(data) == QFrac(Sum(data), Len(data))

\* math.sqrt(variance) / mean if mean > 0 else 1.0
cv(variance_, mean_) ==
    IF QSign(mean_) > 0 THEN SScale(SSqrt(variance_), QDiv(QInt(1), mean_))
    ELSE SRat(QInt(1))

variability_penalty(sales_data) ==
    IF Len(sales_data) > 1
    THEN Only({SMin(SRat(QInt(1)), SSub(SRat(QInt(1)), SScale(cv_, QFrac(5, 10)))) :
                  cv_ \in {Only({cv(variance_, mean_) :
                                    variance_ \in {variance(sales_data)},
                                    mean_ \in {mean(sales_data)}})}})
    ELSE SRat(QFrac(5, 10))

data_quality(sales_data) == QMin(QInt(1), QFrac(Len(sales_data), 90))

\* 5% growth per month in place of the decay
horizon_decay_growing(month) == QAdd(QInt(1), QMul(QInt(month - 1), QFrac(5, 100)))

\* 5% decay per month
horizon_decay(month) == QSub(QInt(1), QMul(QInt(month - 1), QFrac(5, 100)))

\* min(1.0, confidence): the clamp without its floor of 0.1
Clamp_without_floor(confidence) == SMin(SRat(QInt(1)), confidence)

\* max(0.1, min(1.0, confidence))
Clamp(confidence) == SMax(SRat(QFrac(1, 10)), SMin(SRat(QInt(1)), confidence))

_calculate_confidence_score(sales_data, month) ==
    IF Len(sales_data) < 7 THEN SRat(QFrac(3, 10))
    ELSE Only({Clamp(confidence) :
                  confidence \in
                      {Only({SScale(penalty, QMul(quality, horizon)) :
                                penalty \in {variability_penalty(sales_data)},
                                quality \in {data_quality(sales_data)},
                                horizon \in {horizon_decay(month)}})}})

_generate_conservative_forecast(product_id) ==
    [product_id    |-> product_id,
     algorithm     |-> "conservative",
     model_version |-> "v1.0.0",
     forecasts     |-> [month \in Months |->
                           MonthlyForecast(month, 0, 0, 0, SRat(QFrac(1, 10)))],
     metadata      |-> [insufficient_data |-> TRUE]]

\* the loop's turn with the bounds taken from the truncated quantity
MonthForecast_from_quantity(month, forecast, confidence_score) ==
    MonthlyForecast(month, int(forecast),
                    int(QMul(QInt(int(forecast)), QFrac(8, 10))),
                    int(QMul(QInt(int(forecast)), QFrac(12, 10))),
                    confidence_score)

\* one turn of predict's loop over the months
MonthForecast(month, forecast, confidence_score) ==
    MonthlyForecast(month, int(forecast),
                    int(QMul(forecast, QFrac(8, 10))),
                    int(QMul(forecast, QFrac(12, 10))),
                    confidence_score)

\* the loop over range(0, 12) instead of range(1, 13)
MonthlyForecasts_from_zero(sales_data, adjusted_forecasts) ==
    [month \in Months |->
        MonthForecast(month - 1, adjusted_forecasts[month],
                      _calculate_confidence_score(sales_data, month))]

MonthlyForecasts(sales_data, adjusted_forecasts) ==
    [month \in Months |->
        MonthForecast(month, adjusted_forecasts[month],
                      _calculate_confidence_score(sales_data, month))]

\* the test with its threshold off by one
InsufficientData_off_by_one(sales_data) == Len(sales_data) <= 7

\* predict's test for the conservative path
InsufficientData(sales_data) == Len(sales_data) < 7

EnsembleResponse(inputs, sales_data) ==
    [product_id    |-> inputs.product_id,
     algorithm     |-> "ensemble",
     model_version |-> "v1.0.0",
     forecasts     |->
         MonthlyForecasts(
             sales_data,
             _apply_exogenous_signals(_calculate_base_forecast(sales_data),
                                      inputs.trends_data, inputs.regulation_flags,
                                      inputs.exogenous_factors)),
     metadata      |->
         [data_points      |-> Len(sales_data),
          trends_signals   |-> IF Truthy(inputs.trends_data)
                               THEN Len(inputs.trends_data.list) ELSE 0,
          regulation_flags |-> IF Truthy(inputs.regulation_flags)
                               THEN Len(inputs.regulation_flags.list) ELSE 0]]

PredictFrom(inputs, sales_data) ==
    IF InsufficientData(sales_data)
    THEN _generate_conservative_forecast(inputs.product_id)
    ELSE EnsembleResponse(inputs, sales_data)

predict(inputs) == PredictFrom(inputs, _parse_sales_history(inputs.sales_history))

(***************************************************************************)
(* services/strategizer.py: Strategizer.  A strategy text is kept as its   *)
(* template and the values formatted into it; the fixed "reason" strings   *)
(* of the actions are left out.                                            *)
(***************************************************************************)
_no_demand_strategy(month) ==
    [text |-> <<"Proyeksi permintaan sangat rendah", month>>,
     actions |->
        [pricing   |-> [action |-> "reduce", percentage |-> 10],
         inventory |-> [action |-> "reduce", quantity |-> 0],
         marketing |-> [channels |-> <<"social", "email">>, budget |-> 200000]],
     priority |-> "low",
     estimated_impact |-> {<<"sales_increase", "5-10%">>, <<"cost_reduction", "10-15%">>}]

_low_demand_strategy(forecast, product_info) ==
    [text |-> <<"Proyeksi permintaan rendah", forecast.month, forecast.predicted_quantity>>,
     actions |->
        [pricing   |-> [action |-> "maintain", percentage |-> 0],
         inventory |-> [action |-> "optimize", quantity |-> forecast.predicted_quantity],
         marketing |-> [channels |-> <<"social">>, budget |-> 300000]],
     priority |-> "medium",
     estimated_impact |->
        {<<"sales_increase", "10-15%">>, <<"inventory_optimization", "20-30%">>}]

_medium_demand_strategy(forecast, product_info) ==
    [text |-> <<"Proyeksi permintaan sedang", forecast.month, forecast.predicted_quantity>>,
     actions |->
        [pricing   |-> [action |-> "maintain", percentage |-> 0],
         inventory |-> [action |-> "restock", quantity |-> forecast.predicted_quantity + 20],
         marketing |-> [channels |-> <<"social", "email">>, budget |-> 500000]],
     priority |-> "medium",
     estimated_impact |->
        {<<"sales_stability", "+-5%">>, <<"customer_satisfaction", "High">>}]

_high_demand_strategy(forecast, product_info) ==
    [text |-> <<"Proyeksi permintaan tinggi", forecast.month, forecast.predicted_quantity>>,
     actions |->
        [pricing   |-> [action |-> "increase", percentage |-> 5],
         inventory |-> [action |-> "restock", quantity |-> forecast.predicted_quantity + 50],
         marketing |-> [channels |-> <<"social", "email", "marketplace">>,
                        budget |-> 1000000]],
     priority |-> "high",
     estimated_impact |->
        {<<"sales_increase", "20-30%">>, <<"revenue_increase", "25-35%">>}]

SelectTier(predicted, forecast, product_info) ==
    IF predicted = 0 THEN _no_demand_strategy(forecast.month)
    ELSE IF predicted < 50 THEN _low_demand_strategy(forecast, product_info)
    ELSE IF predicted < 200 THEN _medium_demand_strategy(forecast, product_info)
    ELSE _high_demand_strategy(forecast, product_info)

\* the tiers with their upper boundaries inclusive
_generate_monthly_strategy_inclusive(forecast, product_info) ==
    IF forecast.predicted_quantity = 0 THEN _no_demand_strategy(forecast.month)
    ELSE IF forecast.predicted_quantity <= 50
    THEN _low_demand_strategy(forecast, product_info)
    ELSE IF forecast.predicted_quantity <= 200
    THEN _medium_demand_strategy(forecast, product_info)
    ELSE _high_demand_strategy(forecast, product_info)

_generate_monthly_strategy(forecast, product_info) ==
    SelectTier(forecast.predicted_quantity, forecast, product_info)

\* one turn of generate_strategies' loop: the strategy of one forecast
StrategyOf(product_id, forecast, strategy) ==
    [product_id       |-> product_id,
     month            |-> forecast.month,
     forecast_id      |-> "None",
     strategy_text    |-> strategy.text,
     actions          |-> strategy.actions,
     priority         |-> strategy.priority,
     estimated_impact |-> strategy.estimated_impact]

StrategiesOf(product_id, forecasts, product_info) ==
    [i \in 1..Len(forecasts) |->
        StrategyOf(product_id, forecasts[i],
                   _generate_monthly_strategy(forecasts[i], product_info))]

\* a loop that skips the forecasts of no demand
generate_strategies_skipping_no_demand(product_id, forecasts, product_info) ==
    StrategiesOf(product_id,
                 SelectSeq(forecasts, LAMBDA forecast : forecast.predicted_quantity # 0),
                 product_info)

generate_strategies(product_id, forecasts, product_info) ==
    StrategiesOf(product_id, forecasts, product_info)

(***************************************************************************)
(* The requests the model runs the predictor on.                           *)
(***************************************************************************)
Quantities == {0, 10}
ProductIds == {"p1"}

\* how often a history changes its level from one day to the next
RECURSIVE Changes(_)
Changes(q) ==
    IF Len(q) < 2 THEN 0
    ELSE (IF q[1] # q[2] THEN 1 ELSE 0) + Changes(Tail(q))

SalesHistories ==
    UNION {{[i \in 1..n |-> SalesHistoryPoint(i, q[i])] :
               q \in {h \in [1..n -> Quantities] : Changes(h) <= MaxChanges}}
           : n \in 0..MaxLen}

TrendsChoices == {None, Some(<<TrendSignal(100), TrendSignal(60)>>)}

RegulationChoices ==
    {None,
     Some(<<RegulationFlag(QInt(1), "negative")>>),
     Some(<<RegulationFlag(QInt(1), "positive"), RegulationFlag(QFrac(1, 2), "neutral")>>)}

ForecastInputs ==
    [product_id : ProductIds, sales_history : SalesHistories,
     trends_data : TrendsChoices, regulation_flags : RegulationChoices,
     exogenous_factors : {None}]

\* what a caller may hand to generate_strategies directly
TierQuantities == {-1, 0, 1, 49, 50, 199, 200, 201}
ProductInfos == {None, Some(<<"category">>)}
CallerProductIds == {"p1", "p2"}

CallerForecasts ==
    {MonthlyForecast(m, pq, pq, pq, SRat(QFrac(1, 2))) :
        m \in {1, 12}, pq \in TierQuantities}

StrategyCalls ==
    [product_id : CallerProductIds,
     forecasts : UNION {[1..n -> CallerForecasts] : n \in 0..MaxForecasts}
                 \cup {_generate_conservative_forecast("p1").forecasts},
     product_info : ProductInfos]

(***************************************************************************)
(* State: one request from its arrival to its strategies.                  *)
(*   pc         where the request is                                       *)
(*   inputs     the ForecastInputs of the request                          *)
(*   response   what predict returned                                      *)
(*   call       the arguments generate_strategies is called with           *)
(*   strategies what generate_strategies returned                          *)
(* and, for requests that are in the service at the same time,             *)
(*   invocations  each request's position, its ForecastPredictor, its      *)
(*                ForecastInputs and what predict returned to it           *)
(***************************************************************************)
VARIABLES pc, inputs, response, call, strategies, invocations

vars == <<pc, inputs, response, call, strategies, invocations>>

NoInputs ==
    [product_id |-> "", sales_history |-> <<>>, trends_data |-> None,
     regulation_flags |-> None, exogenous_factors |-> None]
NoResponse == [algorithm |-> "none", forecasts |-> <<>>]
NoCall == [product_id |-> "", forecasts |-> <<>>, product_info |-> None]

Init ==
    /\ pc = "request"
    /\ inputs \in ForecastInputs
    /\ response = NoResponse
    /\ call = NoCall
    /\ strategies = <<>>
    /\ invocations = <<>>

\* ForecastPredictor.predict on the request
Predict ==
    /\ pc = "request"
    /\ response' = predict(inputs)
    /\ pc' = "forecast"
    /\ UNCHANGED <<inputs, call, strategies, invocations>>

\* the caller hands the forecasts of the response to the strategy engine
Strategize ==
    /\ pc = "forecast"
    /\ \E product_info \in ProductInfos :
          call' = [product_id   |-> inputs.product_id,
                   forecasts    |-> response.forecasts,
                   product_info |-> product_info]
    /\ pc' = "strategize"
    /\ UNCHANGED <<inputs, response, strategies, invocations>>

\* Strategizer.generate_strategies on the call
GenerateStrategies ==
    /\ pc = "strategize"
    /\ strategies' = generate_strategies(call.product_id, call.forecasts,
                                         call.product_info)
    /\ pc' = "done"
    /\ UNCHANGED <<inputs, response, call, invocations>>

Next == Predict \/ Strategize \/ GenerateStrategies

Spec == Init /\ [][Next]_vars

\* generate_strategies called directly, on any list of forecasts
InitStrategizer ==
    /\ pc = "strategize"
    /\ inputs = NoInputs
    /\ response = NoResponse
    /\ call \in StrategyCalls
    /\ strategies = <<>>
    /\ invocations = <<>>

SpecStrategizer == InitStrategizer /\ [][GenerateStrategies]_vars

(***************************************************************************)
(* predict on requests whose regulation flags are any list of up to        *)
(* MaxFlags flags, the empty list included.                                *)
(***************************************************************************)
RegulationFlags ==
    {RegulationFlag(QInt(1), "positive"), RegulationFlag(QFrac(1, 2), "negative"),
     RegulationFlag(QInt(1), "neutral")}

FlagLists == UNION {[1..n -> RegulationFlags] : n \in 0..MaxFlags}

FlaggedHistories ==
    {[i \in 1..7 |-> SalesHistoryPoint(i, 10)],
     [i \in 1..7 |-> SalesHistoryPoint(i, IF i = 7 THEN 10 ELSE 0)]}

FlaggedInputs ==
    [product_id : ProductIds, sales_history : FlaggedHistories,
     trends_data : TrendsChoices,
     regulation_flags : {None} \cup {Some(flags) : flags \in FlagLists},
     exogenous_factors : {None}]

InitRegulation ==
    /\ pc = "request"
    /\ inputs \in FlaggedInputs
    /\ response = NoResponse
    /\ call = NoCall
    /\ strategies = <<>>
    /\ invocations = <<>>

SpecRegulation == InitRegulation /\ [][Predict]_vars

(***************************************************************************)
(* The /forecast handler of main.py from the request to its HTTP outcome.  *)
(* Its first statement imports app.services.predictor, whose class body    *)
(* annotates _apply_exogenous_signals with Optional, a name the module     *)
(* does not import: an interpreter that evaluates annotations when the     *)
(* function is defined raises NameError there, one that defers them loads  *)
(* the module.  Which of the two the service runs on is not fixed by the   *)
(* sources, so both outcomes of the import are steps of the handler.       *)
(***************************************************************************)
NameError == "name 'Optional' is not defined"

\* raise HTTPException(status_code=500, detail=...)
HTTPException(e) ==
    [status_code |-> 500, detail |-> <<"Forecast generation failed: ", e>>,
     algorithm |-> "none", forecasts |-> <<>>]

\* from app.services.predictor import ForecastPredictor raises
ImportFails ==
    /\ pc = "request"
    /\ response' = HTTPException(NameError)
    /\ pc' = "http500"
    /\ UNCHANGED <<inputs, call, strategies, invocations>>

\* return forecast
Return ==
    /\ pc = "forecast"
    /\ pc' = "http200"
    /\ UNCHANGED <<inputs, response, call, strategies, invocations>>

NextHandler == ImportFails \/ Predict \/ Return

SpecHandler == Init /\ [][NextHandler]_vars

(***************************************************************************)
(* Requests that are in the service at the same time.  The handler of      *)
(* main.py makes a ForecastPredictor of its own for every request and      *)
(* awaits its predict, which holds no await and so runs from its first     *)
(* line to its return without another request in between.                  *)
(***************************************************************************)
Invocations == 1..MaxInvocations

\* six even and seven uneven days of sales, with and without a flag
ConcurrentHistories ==
    {[i \in 1..6 |-> SalesHistoryPoint(i, 10)],
     [i \in 1..7 |-> SalesHistoryPoint(i, IF i = 1 THEN 10 ELSE 0)]}

ConcurrentInputs ==
    [product_id : ProductIds, sales_history : ConcurrentHistories,
     trends_data : {None},
     regulation_flags : {None, Some(<<RegulationFlag(QInt(1), "negative")>>)},
     exogenous_factors : {None}]

NoPredictor == [algorithm |-> "", model_version |-> ""]

\* ForecastPredictor.__init__
ForecastPredictor == [algorithm |-> "ensemble", model_version |-> "v1.0.0"]

Arrived(request) ==
    [pc |-> "request", predictor |-> NoPredictor, inputs |-> request,
     response |-> NoResponse]

InitConcurrent ==
    /\ pc = "concurrent"
    /\ inputs = NoInputs
    /\ response = NoResponse
    /\ call = NoCall
    /\ strategies = <<>>
    /\ invocations \in [Invocations -> {Arrived(request) : request \in ConcurrentInputs}]

\* a predictor kept from one request to the next, which answers a product it
\* has answered before with the forecasts it returned then
Invoke_keeping_forecasts(all, i) ==
    IF \E j \in DOMAIN all :
          all[j].pc = "returned" /\ all[j].inputs.product_id = all[i].inputs.product_id
    THEN [all EXCEPT ![i].pc = "returned",
                     ![i].response =
                         all[CHOOSE j \in DOMAIN all :
                                 /\ all[j].pc = "returned"
                                 /\ all[j].inputs.product_id = all[i].inputs.product_id
                            ].response]
    ELSE [all EXCEPT ![i].pc = "returned", ![i].response = predict(all[i].inputs)]

\* what the invocations are once invocation i has run predict: predict reads
\* its inputs and the two fields of its own predictor, and writes nothing but
\* its locals and the response it returns
Invoke(all, i) ==
    [all EXCEPT ![i].pc = "returned", ![i].response = predict(all[i].inputs)]

\* predictor = ForecastPredictor()
Construct(i) ==
    /\ invocations[i].pc = "request"
    /\ invocations' = [invocations EXCEPT ![i].pc = "constructed",
                                           ![i].predictor = ForecastPredictor]
    /\ UNCHANGED <<pc, inputs, response, call, strategies>>

\* forecast = await predictor.predict(inputs)
PredictOf(i) ==
    /\ invocations[i].pc = "constructed"
    /\ invocations' = Invoke(invocations, i)
    /\ UNCHANGED <<pc, inputs, response, call, strategies>>

NextConcurrent == \E i \in Invocations : Construct(i) \/ PredictOf(i)

SpecConcurrent == InitConcurrent /\ [][NextConcurrent]_vars

(***************************************************************************)
(* Properties of predict, stated of the state in which it has returned.    *)
(***************************************************************************)
Returned == pc = "forecast"
Ensemble == Returned /\ response.algorithm = "ensemble"
SalesData == _parse_sales_history(inputs.sales_history)
Forecasts == response.forecasts
NoSignals == ~Truthy(inputs.trends_data) /\ ~Truthy(inputs.regulation_flags)
Abs(x) == IF x < 0 THEN -x ELSE x

\* the forecasts of the request before int() truncates them
AdjustedForecasts ==
    _apply_exogenous_signals(_calculate_base_forecast(SalesData), inputs.trends_data,
                             inputs.regulation_flags, inputs.exogenous_factors)

\* C1: a sales history of fewer than 7 points, whatever the trends and the
\* regulation flags, gets the conservative response: algorithm
\* "conservative", months 1..12, each with predicted_quantity,
\* confidence_lower and confidence_upper 0 and confidence_score 0.1, and
\* metadata.insufficient_data true; 7 points or more get algorithm "ensemble".
C1_ConservativeBelowSevenPoints ==
    Returned =>
        IF Len(inputs.sales_history) < 7
        THEN /\ response.algorithm = "conservative"
             /\ Len(Forecasts) = 12
             /\ \A m \in 1..12 :
                    Forecasts[m] = MonthlyForecast(m, 0, 0, 0, SRat(QFrac(1, 10)))
             /\ response.metadata.insufficient_data = TRUE
             /\ response.product_id = inputs.product_id
        ELSE response.algorithm = "ensemble" /\ Len(Forecasts) = 12

\* C1 happens: six points with trends and flags supplied, answered conservatively
C1_SixPointsWithSignals ==
    /\ Returned
    /\ Len(inputs.sales_history) = 6
    /\ Truthy(inputs.trends_data) /\ Truthy(inputs.regulation_flags)
    /\ response.algorithm = "conservative"

\* C2: for non-negative sales quantities every forecast has
\* predicted_quantity >= 0 and confidence_lower >= 0.  The code does not
\* keep this: the trend projection of a falling history is negative, and
\* [10,0,0,0,0,0,0] is answered with -40 (lower bound -32) for month 1.
C2_ForecastsNonNegative ==
    Returned =>
        \A m \in 1..Len(Forecasts) :
            Forecasts[m].predicted_quantity >= 0 /\ Forecasts[m].confidence_lower >= 0

\* C3: confidence_lower <= predicted_quantity <= confidence_upper in every
\* month of every response.  It fails exactly where C2 fails: a negative
\* forecast f has int(0.8 f) > int(f) > int(1.2 f).
C3_BoundsEncloseQuantity ==
    Returned =>
        \A m \in 1..Len(Forecasts) :
            /\ Forecasts[m].confidence_lower <= Forecasts[m].predicted_quantity
            /\ Forecasts[m].predicted_quantity <= Forecasts[m].confidence_upper

\* C4 as written: on the ensemble path confidence_lower is
\* floor(0.8 * predicted_quantity) and confidence_upper is
\* floor(1.2 * predicted_quantity), of the integer predicted_quantity.
C4_BoundsOfTruncatedQuantity ==
    Ensemble =>
        \A m \in 1..12 :
            /\ Forecasts[m].confidence_lower
                   = Floor(QMul(QInt(Forecasts[m].predicted_quantity), QFrac(8, 10)))
            /\ Forecasts[m].confidence_upper
                   = Floor(QMul(QInt(Forecasts[m].predicted_quantity), QFrac(12, 10)))

\* C4, amended: the bounds are taken from the forecast f before it is
\* truncated: predicted_quantity = int(f), confidence_lower = int(0.8 f),
\* confidence_upper = int(1.2 f), int truncating toward zero.  For f >= 0
\* each bound is therefore the floor the claim names or one more.
C4_BoundsOfForecast ==
    Ensemble =>
        \A adjusted \in {AdjustedForecasts} : \A m \in 1..12 :
            /\ Forecasts[m].predicted_quantity = int(adjusted[m])
            /\ Forecasts[m].confidence_lower = int(QMul(adjusted[m], QFrac(8, 10)))
            /\ Forecasts[m].confidence_upper = int(QMul(adjusted[m], QFrac(12, 10)))
            /\ QSign(adjusted[m]) >= 0 =>
                  /\ Forecasts[m].confidence_lower
                       - Floor(QMul(QInt(Forecasts[m].predicted_quantity), QFrac(8, 10)))
                         \in {0, 1}
                  /\ Forecasts[m].confidence_upper
                       - Floor(QMul(QInt(Forecasts[m].predicted_quantity), QFrac(12, 10)))
                         \in {0, 1}

\* C4 happens: a forecast of 304.4 gives quantity 304 and upper bound
\* int(365.28) = 365, where floor(1.2 * 304) is 364
C4_UpperBoundAboveFloor ==
    /\ Ensemble
    /\ Forecasts[1].predicted_quantity = 304
    /\ Forecasts[1].confidence_upper = 365

\* C5: confidence_score lies in [0.1, 1.0] in every month of every
\* response, conservative or ensemble, all-zero histories and histories
\* whose coefficient of variation exceeds 2 included.
C5_ConfidenceScoreInRange ==
    Returned =>
        \A m \in 1..Len(Forecasts) :
            /\ SLe(SRat(QFrac(1, 10)), Forecasts[m].confidence_score)
            /\ SLe(Forecasts[m].confidence_score, SRat(QInt(1)))

\* C5 happens: [0,0,0,0,0,0,10] has a coefficient of variation of
\* sqrt(7) > 2, its raw confidence is negative and the score is 0.1
C5_HighVariationClamped ==
    /\ Ensemble
    /\ SalesData = <<0, 0, 0, 0, 0, 0, 10>>
    /\ SLt(variability_penalty(SalesData), SRat(QInt(0)))
    /\ SCmp(Forecasts[1].confidence_score, SRat(QFrac(1, 10))) = 0

\* C6: with neither trends_data nor regulation_flags supplied and a
\* non-negative ensemble base forecast, predicted_quantity never rises
\* from one month to the next.
C6_MonotoneDecay ==
    (Ensemble /\ NoSignals /\ QSign(_calculate_base_forecast(SalesData)[1]) >= 0) =>
        \A k \in 1..11 :
            Forecasts[k + 1].predicted_quantity <= Forecasts[k].predicted_quantity

\* C6 happens: a rising history without signals, falling from 139 in month 1
C6_DecayingForecast ==
    /\ Ensemble /\ NoSignals
    /\ SalesData = <<0, 0, 0, 0, 0, 0, 10>>
    /\ Forecasts[1].predicted_quantity = 139
    /\ Forecasts[12].predicted_quantity < Forecasts[1].predicted_quantity
    /\ Forecasts[12].predicted_quantity > 0

\* the request with one regulation flag of relevance 1.0 and negative impact
HasNegativeFlag ==
    inputs.regulation_flags = Some(<<RegulationFlag(QInt(1), "negative")>>)

\* the same request without the flag: what predict returns, and its
\* forecasts before truncation
WithoutFlag == predict([inputs EXCEPT !.regulation_flags = None])
UnflaggedForecasts ==
    _apply_exogenous_signals(_calculate_base_forecast(SalesData), inputs.trends_data,
                             None, inputs.exogenous_factors)

\* C9 as written: with the negative flag, predicted_quantity is lower in
\* each of the 12 months than without it.
C9_StrictlyLowerWithFlag ==
    (Ensemble /\ HasNegativeFlag) =>
        \A without \in {WithoutFlag.forecasts} : \A m \in 1..12 :
            Forecasts[m].predicted_quantity < without[m].predicted_quantity

\* C9, amended: the flag multiplies each month's forecast before
\* truncation by 0.95, so predicted_quantity is int(0.95 f) for the
\* unflagged forecast f: never larger in magnitude than the unflagged
\* quantity, never above it when that is non-negative, and strictly
\* smaller in magnitude once the unflagged quantity reaches 20 in magnitude.
\* An all-zero history is answered with 0 either way.
C9_FlagScalesForecast ==
    (Ensemble /\ HasNegativeFlag) =>
        \A unflagged \in {UnflaggedForecasts} :
        \A without \in {WithoutFlag.forecasts} : \A m \in 1..12 :
            /\ without[m].predicted_quantity = int(unflagged[m])
            /\ Forecasts[m].predicted_quantity
                   = int(QMul(unflagged[m], QFrac(95, 100)))
            /\ Abs(Forecasts[m].predicted_quantity) <= Abs(without[m].predicted_quantity)
            /\ without[m].predicted_quantity >= 0 =>
                   Forecasts[m].predicted_quantity <= without[m].predicted_quantity
            /\ Abs(without[m].predicted_quantity) >= 20 =>
                   Abs(Forecasts[m].predicted_quantity)
                       < Abs(without[m].predicted_quantity)

\* C9 happens: ten days of 10 with the flag: int(0.95 * 304.4) = 289
C9_FlaggedConstantHistory ==
    /\ Ensemble /\ HasNegativeFlag /\ ~Truthy(inputs.trends_data)
    /\ SalesData = <<10, 10, 10, 10, 10, 10, 10, 10, 10, 10>>
    /\ Forecasts[1].predicted_quantity = 289

\* a history of at least 7 points, all of them c
ConstantHistory(c) ==
    Len(SalesData) >= 7 /\ \A i \in 1..Len(SalesData) : SalesData[i] = c

\* C10 as written: ten days of 10 without signals give month 1 a
\* predicted_quantity of 10 * 30.44 * 0.98 truncated, 298.
C10_MonthOneIs298 ==
    (Ensemble /\ NoSignals /\ Len(SalesData) = 10 /\ ConstantHistory(10)) =>
        Forecasts[1].predicted_quantity = 298

\* C10, amended: for a constant history of value c with at least 7 points
\* and no signals the four estimators all equal c and month m's
\* predicted_quantity is int(c * 30.44 * (1 - (m - 1) * 0.02)); month 1 has
\* the factor 1.00, so ten days of 10 give 304 in month 1 and 298 in month 2.
C10_ConstantHistory ==
    (Ensemble /\ NoSignals) =>
        \A c \in Quantities :
            ConstantHistory(c) =>
                /\ QEq(_simple_moving_average(SalesData, Len(SalesData)), QInt(c))
                /\ QEq(_exponential_smoothing(SalesData, QFrac(3, 10)), QInt(c))
                /\ QEq(_trend_projection(SalesData), QInt(c))
                /\ QEq(_seasonal_adjustment(SalesData), QInt(c))
                /\ \A m \in 1..12 :
                       Forecasts[m].predicted_quantity
                           = int(QMul(QMul(QInt(c), QFrac(3044, 100)),
                                      QSub(QInt(1), QMul(QInt(m - 1), QFrac(2, 100)))))
                /\ (c = 10 /\ Len(SalesData) = 10) =>
                       /\ Forecasts[1].predicted_quantity = 304
                       /\ Forecasts[2].predicted_quantity = 298

\* C10 happens: ten days of 10 without signals, 304 then 298
C10_TenDaysOfTen ==
    /\ Ensemble /\ NoSignals
    /\ Len(SalesData) = 10 /\ ConstantHistory(10)
    /\ Forecasts[1].predicted_quantity = 304
    /\ Forecasts[2].predicted_quantity = 298

(***************************************************************************)
(* Properties of generate_strategies, stated of the state in which it has  *)
(* returned.                                                               *)
(***************************************************************************)
Generated == pc = "done"

\* the bundle of the tier that a predicted quantity selects
TierBundle(predicted, strategy) ==
    /\ predicted = 0 =>
          /\ strategy.actions.pricing = [action |-> "reduce", percentage |-> 10]
          /\ strategy.actions.inventory.quantity = 0
          /\ strategy.actions.marketing.budget = 200000
          /\ strategy.priority = "low"
    /\ (predicted # 0 /\ predicted < 50) =>
          /\ strategy.actions.pricing.action = "maintain"
          /\ strategy.actions.inventory.quantity = predicted
          /\ strategy.actions.marketing.budget = 300000
          /\ strategy.priority = "medium"
    /\ (predicted >= 50 /\ predicted < 200) =>
          /\ strategy.actions.pricing.action = "maintain"
          /\ strategy.actions.inventory.quantity = predicted + 20
          /\ strategy.actions.marketing.budget = 500000
          /\ strategy.priority = "medium"
    /\ predicted >= 200 =>
          /\ strategy.actions.pricing = [action |-> "increase", percentage |-> 5]
          /\ strategy.actions.inventory.quantity = predicted + 50
          /\ strategy.actions.marketing.budget = 1000000
          /\ strategy.priority = "high"

\* C7: the strategy of a forecast is the bundle of the tier its
\* predicted_quantity selects: 0 no demand, below 50 low, 50..199 medium,
\* 200 and above high; 49 is low, 50 medium, 199 medium, 200 high.
C7_TierByPredictedQuantity ==
    Generated =>
        /\ Len(strategies) = Len(call.forecasts)
        /\ \A i \in 1..Len(call.forecasts) :
               TierBundle(call.forecasts[i].predicted_quantity, strategies[i])

\* C7 happens: forecasts of 49 and 50: low, then medium with 70 to restock
C7_AcrossTheBoundary ==
    /\ Generated
    /\ Len(call.forecasts) = 2
    /\ call.forecasts[1].predicted_quantity = 49
    /\ call.forecasts[2].predicted_quantity = 50
    /\ strategies[1].actions.marketing.budget = 300000
    /\ strategies[2].actions.inventory.quantity = 70

\* C8: generate_strategies returns one strategy per forecast, in the order
\* of the forecasts, strategy i with the product_id argument and the month
\* of forecast i, for every forecast (the all-zero conservative ones
\* too), and the same whatever product_info is.
C8_OneStrategyPerForecast ==
    Generated =>
        /\ Len(strategies) = Len(call.forecasts)
        /\ \A i \in 1..Len(call.forecasts) :
               /\ strategies[i].product_id = call.product_id
               /\ strategies[i].month = call.forecasts[i].month
               /\ strategies[i].strategy_text[2] = call.forecasts[i].month
               /\ call.forecasts[i].predicted_quantity # 0 =>
                      strategies[i].strategy_text[3] = call.forecasts[i].predicted_quantity
        /\ \A product_info \in ProductInfos :
               strategies = generate_strategies(call.product_id, call.forecasts,
                                                product_info)

\* C8 happens: the twelve all-zero forecasts of a conservative response,
\* with a product_info, get twelve strategies of no demand
C8_ConservativeForecasts ==
    /\ Generated
    /\ Len(call.forecasts) = 12
    /\ \A i \in 1..12 : call.forecasts[i].predicted_quantity = 0
    /\ Truthy(call.product_info)
    /\ Len(strategies) = 12
    /\ \A i \in 1..12 : strategies[i].month = i /\ strategies[i].priority = "low"

(***************************************************************************)
(* Properties of requests that are in the service at the same time.        *)
(***************************************************************************)
ReturnedTo(i) == invocations[i].pc = "returned"

\* what a response holds apart from its forecast_date
Values(r) == <<r.algorithm, r.metadata, r.forecasts>>

Answered == pc \in {"http200", "http500"}

\* C12: the outcome of the handler is HTTP 200 with the response of predict
\* or HTTP 500 with a detail string, and for every well-typed ForecastInputs
\* it is HTTP 200.
C12_WellTypedGets200 ==
    Answered =>
        /\ \/ pc = "http200" /\ response = predict(inputs)
           \/ pc = "http500" /\ response.status_code = 500 /\ response.detail # <<>>
        /\ pc = "http200"

(***************************************************************************)
(* Shape of a response.                                                    *)
(***************************************************************************)
\* len(x) if x else 0
LenOrZero(x) == IF x.some THEN Len(x.list) ELSE 0

\* C13: every response of predict, conservative or ensemble, holds exactly
\* 12 forecasts whose month fields are 1, 2, ..., 12 in this order; an
\* ensemble response has metadata.data_points equal to the number of sales
\* points, and trends_signals and regulation_flags equal to the lengths of
\* the two lists, 0 when a list is absent.
C13_TwelveMonthsAndCounts ==
    Returned =>
        /\ DOMAIN Forecasts = 1..12
        /\ \A m \in 1..12 : Forecasts[m].month = m
        /\ response.algorithm = "ensemble" =>
               /\ response.metadata.data_points = Len(inputs.sales_history)
               /\ response.metadata.trends_signals = LenOrZero(inputs.trends_data)
               /\ response.metadata.regulation_flags = LenOrZero(inputs.regulation_flags)

\* C13 happens: an ensemble response to ten sales points, two trend signals
\* and no regulation flags
C13_TenPointsTwoSignals ==
    /\ Ensemble
    /\ Forecasts[12].month = 12
    /\ response.metadata.data_points = 10
    /\ response.metadata.trends_signals = 2
    /\ ~inputs.regulation_flags.some
    /\ response.metadata.regulation_flags = 0

(***************************************************************************)
(* Confidence over the horizon.                                            *)
(***************************************************************************)
ScoreOf(m) == Forecasts[m].confidence_score
Tenth == SRat(QFrac(1, 10))

\* C14 as the specification words it: for any sales history of at least 7
\* points the confidence_score of month 1 is strictly greater than that of
\* month 12.
C14_MonthOneExceedsMonthTwelve ==
    Ensemble => SLt(ScoreOf(12), ScoreOf(1))

\* C14: for any sales history of at least 7 points the confidence_score of
\* month 1 is at least that of month 12, and it is strictly greater exactly
\* when the score of month 1 is above the floor of 0.1: where the floor
\* already holds month 1 it holds month 12 too and the two are equal.
C14_MonthOneAtLeastMonthTwelve ==
    Ensemble =>
        /\ SLe(ScoreOf(12), ScoreOf(1))
        /\ SLt(ScoreOf(12), ScoreOf(1)) <=> SLt(Tenth, ScoreOf(1))

\* C14 happens: ten days of 10 have a score of 1/9 in month 1, above the
\* floor, and of 0.1 in month 12
C14_TenDaysAboveTheFloor ==
    /\ Ensemble
    /\ ConstantHistory(10)
    /\ Len(SalesData) = 10
    /\ SCmp(ScoreOf(1), SRat(QFrac(1, 9))) = 0
    /\ SCmp(ScoreOf(12), Tenth) = 0

(***************************************************************************)
(* The regulation flags of a request.                                      *)
(***************************************************************************)
FlagList == inputs.regulation_flags.list

\* what one flag adds to the impact
SignedImpact(flag) ==
    IF flag.impact = "positive" THEN QMul(flag.relevance_score, QFrac(5, 100))
    ELSE IF flag.impact = "negative"
    THEN QNeg(QMul(flag.relevance_score, QFrac(5, 100)))
    ELSE QInt(0)

\* the sum over the flags divided by the number of flags, neutral ones counted
MeanImpact(flags) ==
    IF flags = <<>> THEN QInt(0)
    ELSE QDiv(QSum([i \in 1..Len(flags) |-> SignedImpact(flags[i])]),
              QInt(Len(flags)))

\* the forecasts of the request before the regulation flags scale them
BeforeRegulation == ApplyTrends(_calculate_base_forecast(SalesData), inputs.trends_data)

Diluted(flags) == Append(flags, RegulationFlag(QInt(1), "neutral"))

\* C15: the regulation impact is the sum of +relevance_score * 0.05 for
\* each positive flag, -relevance_score * 0.05 for each negative flag and 0
\* for each neutral flag, divided by the number of all flags; one more
\* neutral flag on a non-empty list moves the impact toward 0 (the factor
\* 1 + regulation_impact toward 1) without changing its sign; every one of
\* the 12 months is scaled by this same factor; and an absent or empty flag
\* list leaves every month as it was.
C15_RegulationImpactDiluted ==
    Ensemble =>
        /\ QEq(_calculate_regulation_impact(FlagList), MeanImpact(FlagList))
        /\ FlagList # <<>> =>
               /\ QLe(QAbs(_calculate_regulation_impact(Diluted(FlagList))),
                      QAbs(_calculate_regulation_impact(FlagList)))
               /\ QSign(_calculate_regulation_impact(Diluted(FlagList)))
                      = QSign(_calculate_regulation_impact(FlagList))
               /\ QSign(MeanImpact(FlagList)) # 0 =>
                      QLt(QAbs(_calculate_regulation_impact(Diluted(FlagList))),
                          QAbs(MeanImpact(FlagList)))
        /\ \A m \in 1..12 :
               /\ QEq(AdjustedForecasts[m],
                      QMul(BeforeRegulation[m], QAdd(QInt(1), MeanImpact(FlagList))))
               /\ Forecasts[m].predicted_quantity
                      = int(QMul(BeforeRegulation[m], QAdd(QInt(1), MeanImpact(FlagList))))
        /\ FlagList = <<>> => AdjustedForecasts = BeforeRegulation

\* C15 happens: a positive flag of relevance 1 and a neutral flag give an
\* impact of 0.025, half of the positive flag's alone, and raise month 1
C15_PositiveAndNeutralFlag ==
    /\ Ensemble
    /\ FlagList = <<RegulationFlag(QInt(1), "positive"), RegulationFlag(QInt(1), "neutral")>>
    /\ QEq(_calculate_regulation_impact(FlagList), QFrac(1, 40))
    /\ QEq(_calculate_regulation_impact(SubSeq(FlagList, 1, 1)), QFrac(1, 20))
    /\ QLt(BeforeRegulation[1], AdjustedForecasts[1])

(***************************************************************************)
(* The strategies of the forecasts predict returned.                       *)
(***************************************************************************)
LowTier(strategy) == strategy.actions.inventory.action = "optimize"

\* C16: for the forecasts predict returns from non-negative sales
\* quantities, every strategy of generate_strategies has an inventory
\* quantity of at least 0, and a strategy of the low tier has a
\* predicted_quantity in 1..49.
C16_NonNegativeInventoryTargets ==
    (Generated /\ \A i \in 1..Len(inputs.sales_history) :
                     inputs.sales_history[i].quantity >= 0) =>
        \A i \in 1..Len(strategies) :
            /\ strategies[i].actions.inventory.quantity >= 0
            /\ LowTier(strategies[i]) =>
                   call.forecasts[i].predicted_quantity \in 1..49

=============================================================================
